---------------------------- MODULE Spec2Model ----------------------------
(***************************************************************************)
(* A model of contact_graspnet/utils/ipc.py: the frame codec               *)
(* (pack_ndarray / recv_message), the reliable reader (recvall), and the   *)
(* client and server sessions (CGNClient / CGNServer) that exchange        *)
(* framed messages over an AF_UNIX stream socket.                          *)
(*                                                                         *)
(* Bytes are integers 0..255 and a byte string is a sequence of them.      *)
(* A frame is a numpy array, modelled as a short sequence of element       *)
(* bytes; np.savez / np.load are modelled as a length-prefixed encoding    *)
(* and its checked inverse (the real one is a zip archive: what matters    *)
(* here is that a blob is never empty, that it determines the array, and   *)
(* that a mis-sliced blob does not load).                                  *)
(***************************************************************************)
EXTENDS Integers, Sequences, FiniteSets, TLC

\* ------------------------------------------------------------------ bounds
\* Frames per message and elements per array; the sizes and totals written
\* into hand-made headers; the byte counts asked of recvall.
MaxFrames == 2
MaxArrayLen == 1
MaxRawSize == 2
MaxRawTotal == 3
MaxCount == 3

\* ------------------------------------------------------- program constants
\* struct.calcsize('IH') and struct.calcsize('I'): the recv sizes of
\* recv_message.
HeaderLen == 6
SizeLen == 4

\* ----------------------------------------------------------------- helpers
Min(a, b) == IF a <= b THEN a ELSE b

\* Python's b[:n] and b[n:] for n >= 0: both clamp at the end of b.
Take(s, n) == SubSeq(s, 1, Min(n, Len(s)))
Drop(s, n) == SubSeq(s, Min(n, Len(s)) + 1, Len(s))

RECURSIVE SumSeq(_)
SumSeq(s) == IF s = <<>> THEN 0 ELSE Head(s) + SumSeq(Tail(s))

RECURSIVE SeqsUpTo(_, _)
SeqsUpTo(S, n) ==
    IF n = 0 THEN {<<>>}
    ELSE LET shorter == SeqsUpTo(S, n - 1)
         IN  shorter \cup {Append(s, x) : s \in {t \in shorter : Len(t) = n - 1}, x \in S}

\* ------------------------------------------------------------------ struct
\* struct.pack('I', v): four bytes, little-endian (native order of the hosts
\* this runs on).  struct.pack raises for v >= 2^32; the model stays below.
PackI(v) == << v % 256, (v \div 256) % 256, (v \div 65536) % 256, (v \div 16777216) % 256 >>
PackH(v) == << v % 256, (v \div 256) % 256 >>
\* struct.pack('IH', total, count): I at offset 0, H at offset 4, no padding.
PackIH(total, count) == PackI(total) \o PackH(count)

UnpackI(b) == b[1] + 256 * b[2] + 65536 * b[3] + 16777216 * b[4]
UnpackH(b) == b[1] + 256 * b[2]

\* ------------------------------------------------------------------- numpy
ElemVals == {7, 8}
Arrays == SeqsUpTo(ElemVals, MaxArrayLen)

\* np.savez(f, frame=a): the bytes appended to f for one array.
Savez(a) == <<Len(a)>> \o a
\* np.load(BytesIO(b))['frame'] succeeds exactly on a well-formed blob.
NpzValid(b) == Len(b) >= 1 /\ b[1] = Len(b) - 1
NpLoad(b) == Tail(b)

Messages == SeqsUpTo(Arrays, MaxFrames)

\* ------------------------------------------------------------ pack_ndarray
\* The loop of pack_ndarray: every frame is written to the one buffer f, and
\* its size is the growth of f.
\* (mutant: the size of a frame taken as the whole length of f so far)
RECURSIVE PackLoopCumulativeMut(_, _, _, _)
PackLoopCumulativeMut(frames, i, f, sizes) ==
    IF i > Len(frames) THEN [f |-> f, sizes |-> sizes]
    ELSE LET f2 == f \o Savez(frames[i])
             packet_size == Len(f2)
         IN  PackLoopCumulativeMut(frames, i + 1, f2, Append(sizes, packet_size))

RECURSIVE PackLoop(_, _, _, _)
PackLoop(frames, i, f, sizes) ==
    IF i > Len(frames) THEN [f |-> f, sizes |-> sizes]
    ELSE LET f2 == f \o Savez(frames[i])
             packet_size == Len(f2) - SumSeq(sizes)
         IN  PackLoop(frames, i + 1, f2, Append(sizes, packet_size))

RECURSIVE PackSizes(_)
PackSizes(sizes) == IF sizes = <<>> THEN <<>> ELSE PackI(Head(sizes)) \o PackSizes(Tail(sizes))

pack_ndarray(frames) ==
    IF Len(frames) = 0 THEN PackIH(0, 0)
    ELSE LET p == PackLoop(frames, 1, <<>>, <<>>)
         IN  PackIH(SumSeq(p.sizes), Len(p.sizes)) \o PackSizes(p.sizes) \o p.f

\* send_message(socket, message): None and [] both go out as pack_ndarray([]).
NoneMsg == "None"
send_message(message) ==
    IF message = NoneMsg THEN pack_ndarray(<<>>) ELSE pack_ndarray(message)

\* ----------------------------------------------------------------- recvall
\* recvall(socket, count) as a loop state: buf, the count still wanted, and
\* k: "run" (inside the loop, about to call recv), "buf" (returned buf),
\* "None" (returned None on an empty read).
RecvallRet(buf) == [buf |-> buf, count |-> 0, k |-> "buf"]
\* (mutant: the short buffer returned on an empty read)
RecvallNoneMut(ra, newbuf) ==
    IF Len(newbuf) = 0 THEN RecvallRet(ra.buf)
    ELSE IF ra.count - Len(newbuf) = 0
         THEN RecvallRet(ra.buf \o newbuf)
         ELSE [buf |-> ra.buf \o newbuf, count |-> ra.count - Len(newbuf), k |-> "run"]
\* (mutant: no loop, one recv only)
RecvallOnceMut(ra, newbuf) ==
    IF Len(newbuf) = 0 THEN [buf |-> ra.buf, count |-> ra.count, k |-> "None"]
    ELSE RecvallRet(ra.buf \o newbuf)

recvall_call(count) ==
    IF count = 0 THEN RecvallRet(<<>>) ELSE [buf |-> <<>>, count |-> count, k |-> "run"]

\* One pass of the while loop, newbuf being what socket.recv(count) returned.
recvall(ra, newbuf) ==
    IF Len(newbuf) = 0 THEN [buf |-> ra.buf, count |-> ra.count, k |-> "None"]
    ELSE IF ra.count - Len(newbuf) = 0
         THEN RecvallRet(ra.buf \o newbuf)
         ELSE [buf |-> ra.buf \o newbuf, count |-> ra.count - Len(newbuf), k |-> "run"]

\* ------------------------------------------------------------ recv_message
\* recv_message(socket) as a state: st is the recv call it is about to make
\* ("header", "sizes", "body") or "done"; header, total_size, num_frames,
\* sizes and the recvall loop are its locals; ret is what it returned or
\* raised: k = "run" | "None" | "frames" | "raise".
Running == [k |-> "run", frames |-> <<>>, err |-> ""]
RetNone == [k |-> "None", frames |-> <<>>, err |-> ""]
RetFrames(fs) == [k |-> "frames", frames |-> fs, err |-> ""]
Raise(e) == [k |-> "raise", frames |-> <<>>, err |-> e]

RdStart ==
    [st |-> "header", header |-> <<>>, total_size |-> 0, num_frames |-> 0,
     sizes |-> <<>>, ra |-> recvall_call(0), ret |-> Running]

RdDone(rd, r) == [rd EXCEPT !.st = "done", !.ret = r]

\* The number of bytes the next socket.recv call of recv_message asks for.
RdWant(rd) ==
    CASE rd.st = "header" -> HeaderLen
      [] rd.st = "sizes" -> SizeLen
      [] rd.st = "body" -> rd.ra.count
      [] OTHER -> 0

\* Lines 82-89: split body_bytes by sizes and np.load every slice.
RECURSIVE SplitFrames(_, _, _, _)
SplitFrames(body_bytes, sizes, i, frames) ==
    IF i > Len(sizes) THEN RetFrames(frames)
    ELSE LET data == Take(body_bytes, sizes[i])
         IN  IF ~NpzValid(data) THEN Raise("LoadError")
             ELSE SplitFrames(Drop(body_bytes, sizes[i]), sizes, i + 1,
                              Append(frames, NpLoad(data)))

\* Lines 81-89 once recvall has returned.
AfterBody(rd, ra) ==
    IF ra.k = "None"
    THEN IF rd.num_frames = 0 THEN RdDone([rd EXCEPT !.ra = ra], RetFrames(<<>>))
         ELSE RdDone([rd EXCEPT !.ra = ra], Raise("TypeError"))
    ELSE RdDone([rd EXCEPT !.ra = ra], SplitFrames(ra.buf, rd.sizes, 1, <<>>))

\* (mutant: a zero total is not taken for the sentinel)
OnHeaderNoSentinelMut(rd, c) ==
    IF Len(c) = 0 THEN RdDone(rd, RetNone)
    ELSE IF Len(c) # HeaderLen THEN RdDone([rd EXCEPT !.header = c], Raise("struct.error"))
    ELSE LET total == UnpackI(SubSeq(c, 1, 4))
             num == UnpackH(SubSeq(c, 5, 6))
             rd2 == [rd EXCEPT !.header = c, !.total_size = total, !.num_frames = num]
         IN  IF total = 0 THEN AfterBody(rd2, recvall_call(0))
             ELSE IF num = 0
                  THEN [rd2 EXCEPT !.st = "body", !.ra = recvall_call(total)]
                  ELSE [rd2 EXCEPT !.st = "sizes"]

\* Lines 69-74: header = socket.recv(6) returned c.
OnHeader(rd, c) ==
    IF Len(c) = 0 THEN RdDone(rd, RetNone)
    ELSE IF Len(c) # HeaderLen THEN RdDone([rd EXCEPT !.header = c], Raise("struct.error"))
    ELSE LET total == UnpackI(SubSeq(c, 1, 4))
             num == UnpackH(SubSeq(c, 5, 6))
             rd2 == [rd EXCEPT !.header = c, !.total_size = total, !.num_frames = num]
         IN  IF total = 0 THEN RdDone(rd2, RetNone)
             ELSE IF num = 0
                  THEN [rd2 EXCEPT !.st = "body", !.ra = recvall_call(total)]
                  ELSE [rd2 EXCEPT !.st = "sizes"]

\* Lines 76-79: size = socket.recv(4) returned c.
OnSize(rd, c) ==
    IF Len(c) # SizeLen THEN RdDone(rd, Raise("struct.error"))
    ELSE LET sizes == Append(rd.sizes, UnpackI(c))
         IN  IF Len(sizes) = rd.num_frames
             THEN [rd EXCEPT !.sizes = sizes, !.st = "body", !.ra = recvall_call(rd.total_size)]
             ELSE [rd EXCEPT !.sizes = sizes]

\* Line 81: one recv of the recvall loop returned c.
OnBody(rd, c) ==
    LET ra == recvall(rd.ra, c)
    IN  IF ra.k = "run" THEN [rd EXCEPT !.ra = ra] ELSE AfterBody(rd, ra)

\* recv_message advanced by one socket.recv call that returned c.
recv_message(rd, c) ==
    CASE rd.st = "header" -> OnHeader(rd, c)
      [] rd.st = "sizes" -> OnSize(rd, c)
      [] rd.st = "body" -> OnBody(rd, c)
      [] OTHER -> rd

\* recv_message run to its end on a stream q whose every socket.recv call
\* returns all the bytes asked for (or what is left before the end).
RECURSIVE RecvWhole(_, _)
RecvWhole(rd, q) ==
    IF rd.st = "done" THEN rd.ret
    ELSE LET c == Take(q, RdWant(rd))
         IN  RecvWhole(recv_message(rd, c), Drop(q, Len(c)))

\* ------------------------------------------------------------- socket.recv
\* What socket.recv(want) may return from a stream whose queued bytes are q:
\* any non-empty prefix of at most want bytes (a stream socket may deliver
\* fewer bytes than asked for), or b'' once the queue is empty and the peer
\* has closed.  (An empty queue with the peer still open blocks: the callers
\* guard on that.)
SockRecv(q, want) ==
    IF Len(q) = 0 THEN {<<>>}
    ELSE {Take(q, k) : k \in 1..Min(want, Len(q))}

\* hCalls counts the socket.recv calls made; hShort tells whether a header or
\* length read returned fewer bytes than it asked for.
VARIABLES hOp, hIn, hStream, hRd, hRa, hCalls, hShort

hvars == <<hOp, hIn, hStream, hRd, hRa, hCalls, hShort>>

\* srv: the server's position (pc), the locals of listen() (connection, the
\*      recv_message call in progress, data, res) and the exception in flight.
\* lsock: self.socket of the server; backlog: connections made, not accepted.
\* sockFile: the socket file exists.
\* cli[i]: client i's position, its recv_message call, the requests issued.
\* conn[i]: the two byte queues of connection i and the state of its ends;
\*      rstC / rstS: the client / server will see a reset, the peer having
\*      closed with unread bytes.
\* log[i]: history of connection i: requests passed to get_grasps, what
\*      get_grasps returned or raised, the callback's calls, and every byte
\*      either side wrote.
VARIABLES srv, lsock, backlog, sockFile, cli, conn, log

svars == <<srv, lsock, backlog, sockFile, cli, conn, log>>
vars == <<srv, lsock, backlog, sockFile, cli, conn, log, hOp, hIn, hStream, hRd, hRa, hCalls, hShort>>

\* ---------------------------------------------------------- codec harness
\* recv_message and recvall run against a stream that holds a header, a
\* length list and a body, possibly cut short, possibly followed by the
\* first bytes of a next message, and then closed by the peer.
Extras == {<<>>, pack_ndarray(<<>>)}
RawSizes == SeqsUpTo(0..MaxRawSize, MaxFrames)
RawBodies == {PackLoop(m, 1, <<>>, <<>>).f : m \in {x \in Messages : Len(x) <= 2}}

RawWire(total, sizes, body) == PackIH(total, Len(sizes)) \o PackSizes(sizes) \o body

MaxWire == HeaderLen + MaxFrames * (SizeLen + MaxArrayLen + 1) + HeaderLen

EncInputs ==
    {[kind |-> "enc", msg |-> m, total |-> SumSeq(PackLoop(m, 1, <<>>, <<>>).sizes),
      sizes |-> PackLoop(m, 1, <<>>, <<>>).sizes, body |-> PackLoop(m, 1, <<>>, <<>>).f,
      extra |-> e, cut |-> c, n |-> 0] :
        m \in Messages, e \in Extras, c \in 0..MaxWire}

RawInputs ==
    {[kind |-> "raw", msg |-> <<>>, total |-> t, sizes |-> sz, body |-> b,
      extra |-> e, cut |-> Len(RawWire(t, sz, b) \o e), n |-> 0] :
        t \in 0..MaxRawTotal, sz \in RawSizes, b \in RawBodies, e \in Extras}

InWire(in) == RawWire(in.total, in.sizes, in.body)
InStream(in) == Take(InWire(in) \o in.extra, in.cut)

HInit ==
    /\ hOp \in {"recv_message", "recvall"}
    /\ hIn \in IF hOp = "recv_message"
               THEN {i \in EncInputs : i.cut <= Len(InWire(i) \o i.extra)} \cup RawInputs
               ELSE {[i EXCEPT !.n = c] : i \in {j \in EncInputs : j.cut <= Len(InWire(j) \o j.extra)},
                                          c \in 0..MaxCount}
    /\ hStream = InStream(hIn)
    /\ hRd = RdStart
    /\ hRa = recvall_call(hIn.n)
    /\ hCalls = 0
    /\ hShort = FALSE

HarnessRecvMessage ==
    /\ hOp = "recv_message"
    /\ hRd.st # "done"
    /\ \E c \in SockRecv(hStream, RdWant(hRd)) :
          /\ hRd' = recv_message(hRd, c)
          /\ hStream' = Drop(hStream, Len(c))
          /\ hShort' = (hShort \/ (hRd.st \in {"header", "sizes"} /\ Len(c) \in 1..(RdWant(hRd) - 1)))
    /\ hCalls' = hCalls + 1
    /\ UNCHANGED <<hOp, hIn, hRa>>
    /\ UNCHANGED svars

HarnessRecvall ==
    /\ hOp = "recvall"
    /\ hRa.k = "run"
    /\ \E c \in SockRecv(hStream, hRa.count) :
          /\ hRa' = recvall(hRa, c)
          /\ hStream' = Drop(hStream, Len(c))
    /\ hCalls' = hCalls + 1
    /\ UNCHANGED <<hOp, hIn, hRd, hShort>>
    /\ UNCHANGED svars

HNext == HarnessRecvMessage \/ HarnessRecvall



\* Bytes of the harness stream consumed so far.
HConsumed == Len(InStream(hIn)) - Len(hStream)

\* ================================================================ sessions
\* One CGNServer and two CGNClient processes (one connection can be accepted
\* while the other waits in the backlog, or follows it); client i owns
\* connection i.  MaxReq bounds the get_grasps calls of a run.
MaxReq == 2

Clients == {1, 2}
NoConn == 0

A0 == <<>>
A7 == <<7>>
A8 == <<8>>
\* What callers pass to get_grasps and what process_fn returns.
Requests == {<<>>, <<A7>>, <<A8, A0>>}
Results == {<<>>, <<A8>>}

SrvLocals == [connection |-> NoConn, rd |-> RdStart, data |-> <<>>, res |-> <<>>]

SInit ==
    /\ srv = [pc |-> "new", exc |-> "", l |-> SrvLocals]
    /\ lsock = "unbound"
    /\ backlog = <<>>
    /\ sockFile \in BOOLEAN
    /\ cli = [i \in Clients |-> [pc |-> "new", rd |-> RdStart, after |-> {}]]
    /\ conn = [i \in Clients |-> [c2s |-> <<>>, s2c |-> <<>>, cEnd |-> "none", sEnd |-> "none",
                                  rstC |-> FALSE, rstS |-> FALSE]]
    /\ log = [i \in Clients |-> [req |-> <<>>, resp |-> <<>>, cb |-> <<>>,
                                 cwrote |-> <<>>, swrote |-> <<>>]]

\* The harness variables rest while the sessions run, and the other way round.
HIdle ==
    /\ hOp = "idle"
    /\ hIn = [kind |-> "enc", msg |-> <<>>, total |-> 0, sizes |-> <<>>, body |-> <<>>,
              extra |-> <<>>, cut |-> 0, n |-> 0]
    /\ hStream = <<>>
    /\ hRd = RdStart
    /\ hRa = recvall_call(0)
    /\ hCalls = 0
    /\ hShort = FALSE

\* ------------------------------------------------------------------ server
\* (mutant: a failed unlink is fatal even when no file is there)
ServerStartStrictMut ==
    /\ srv.pc = "new"
    /\ \/ /\ sockFile' = TRUE
          /\ lsock' = "bound"
          /\ srv' = [srv EXCEPT !.pc = "listen"]
       \/ /\ UNCHANGED <<sockFile, lsock>>
          /\ srv' = [srv EXCEPT !.pc = "raised", !.exc = "OSError"]
       \/ /\ sockFile' = FALSE
          /\ UNCHANGED lsock
          /\ srv' = [srv EXCEPT !.pc = "raised", !.exc = "BindError"]
    /\ UNCHANGED <<backlog, cli, conn, log>>
    /\ UNCHANGED hvars

\* CGNServer.start, lines 139-145: unlink the stale file, bind.
ServerStart ==
    /\ srv.pc = "new"
    /\ \/ /\ sockFile' = TRUE
          /\ lsock' = "bound"
          /\ srv' = [srv EXCEPT !.pc = "listen"]
       \/ /\ sockFile
          /\ UNCHANGED <<sockFile, lsock>>
          /\ srv' = [srv EXCEPT !.pc = "raised", !.exc = "OSError"]
       \/ /\ sockFile' = FALSE
          /\ UNCHANGED lsock
          /\ srv' = [srv EXCEPT !.pc = "raised", !.exc = "BindError"]
    /\ UNCHANGED <<backlog, cli, conn, log>>
    /\ UNCHANGED hvars

\* CGNServer.listen, lines 151-154: connection = None; self.socket.listen(1).
ServerListen ==
    /\ srv.pc = "listen"
    /\ lsock' = "listening"
    /\ srv' = [srv EXCEPT !.pc = "accept", !.l.connection = NoConn]
    /\ UNCHANGED <<backlog, sockFile, cli, conn, log>>
    /\ UNCHANGED hvars

\* Line 155: connection, client_address = self.socket.accept().
ServerAccept ==
    /\ srv.pc = "accept"
    /\ backlog # <<>>
    /\ LET i == Head(backlog)
       IN  /\ conn' = [conn EXCEPT ![i].sEnd = "open"]
           /\ srv' = [srv EXCEPT !.pc = "recv", !.l.connection = i, !.l.rd = RdStart]
    /\ backlog' = Tail(backlog)
    /\ UNCHANGED <<lsock, sockFile, cli, log>>
    /\ UNCHANGED hvars

\* Lines 159-162: what the loop does with what recv_message returned.
\* (mutant: no break on None)
SrvAfterRecvNoBreakMut(s, rd2) ==
    IF rd2.st # "done" THEN [s EXCEPT !.l.rd = rd2]
    ELSE CASE rd2.ret.k = "raise" -> [s EXCEPT !.l.rd = rd2, !.exc = rd2.ret.err, !.pc = "finally"]
           [] OTHER -> [s EXCEPT !.l.rd = rd2, !.l.data = rd2.ret.frames, !.pc = "process"]

SrvAfterRecv(s, rd2) ==
    IF rd2.st # "done" THEN [s EXCEPT !.l.rd = rd2]
    ELSE CASE rd2.ret.k = "None" -> [s EXCEPT !.l.rd = rd2, !.pc = "finally"]
           [] rd2.ret.k = "frames" ->
                [s EXCEPT !.l.rd = rd2, !.l.data = rd2.ret.frames, !.pc = "process"]
           [] OTHER -> [s EXCEPT !.l.rd = rd2, !.exc = rd2.ret.err, !.pc = "finally"]

\* Line 159: one socket.recv call of data = recv_message(connection).
ServerRecv ==
    /\ srv.pc = "recv"
    /\ LET i == srv.l.connection
       IN  \/ /\ Len(conn[i].c2s) > 0 \/ conn[i].cEnd = "closed"
              /\ \E c \in SockRecv(conn[i].c2s, RdWant(srv.l.rd)) :
                    /\ srv' = SrvAfterRecv(srv, recv_message(srv.l.rd, c))
                    /\ conn' = [conn EXCEPT ![i].c2s = Drop(@, Len(c))]
           \/ /\ Len(conn[i].c2s) = 0 /\ conn[i].cEnd = "closed" /\ conn[i].rstS
              /\ srv' = SrvAfterRecv(srv, RdDone(srv.l.rd, Raise("ConnectionResetError")))
              /\ conn' = [conn EXCEPT ![i].rstS = FALSE]
    /\ UNCHANGED <<lsock, backlog, sockFile, cli, log>>
    /\ UNCHANGED hvars

\* Line 165: res = self.process_fn(*data): the callback returns frames or
\* raises.
ServerProcess ==
    /\ srv.pc = "process"
    /\ LET i == srv.l.connection
       IN  \/ \E r \in Results :
                 /\ srv' = [srv EXCEPT !.pc = "send", !.l.res = r]
                 /\ log' = [log EXCEPT ![i].cb =
                              Append(@, [data |-> srv.l.data, k |-> "ret", frames |-> r])]
           \/ /\ srv' = [srv EXCEPT !.pc = "finally", !.exc = "CallbackError"]
              /\ log' = [log EXCEPT ![i].cb =
                           Append(@, [data |-> srv.l.data, k |-> "raise", frames |-> <<>>])]
    /\ UNCHANGED <<lsock, backlog, sockFile, cli, conn>>
    /\ UNCHANGED hvars

\* (mutant: the request is sent back instead of the result)
ServerSendEchoMut ==
    /\ srv.pc = "send"
    /\ LET i == srv.l.connection
       IN  \/ /\ conn[i].cEnd # "closed"
              /\ conn' = [conn EXCEPT ![i].s2c = @ \o send_message(srv.l.data)]
              /\ log' = [log EXCEPT ![i].swrote = @ \o send_message(srv.l.data)]
              /\ srv' = [srv EXCEPT !.pc = "recv", !.l.rd = RdStart]
           \/ /\ conn[i].cEnd = "closed"
              /\ srv' = [srv EXCEPT !.pc = "finally", !.exc = "BrokenPipeError"]
              /\ UNCHANGED <<conn, log>>
    /\ UNCHANGED <<lsock, backlog, sockFile, cli>>
    /\ UNCHANGED hvars

\* (mutant: the response is never written)
ServerSendDropMut ==
    /\ srv.pc = "send"
    /\ LET i == srv.l.connection
       IN  \/ /\ conn[i].cEnd # "closed"
              /\ srv' = [srv EXCEPT !.pc = "recv", !.l.rd = RdStart]
              /\ UNCHANGED <<conn, log>>
           \/ /\ conn[i].cEnd = "closed"
              /\ srv' = [srv EXCEPT !.pc = "finally", !.exc = "BrokenPipeError"]
              /\ UNCHANGED <<conn, log>>
    /\ UNCHANGED <<lsock, backlog, sockFile, cli>>
    /\ UNCHANGED hvars

\* Line 167: send_message(connection, list(res)).
ServerSend ==
    /\ srv.pc = "send"
    /\ LET i == srv.l.connection
       IN  \/ /\ conn[i].cEnd # "closed"
              /\ conn' = [conn EXCEPT ![i].s2c = @ \o send_message(srv.l.res)]
              /\ log' = [log EXCEPT ![i].swrote = @ \o send_message(srv.l.res)]
              /\ srv' = [srv EXCEPT !.pc = "recv", !.l.rd = RdStart]
           \/ /\ conn[i].cEnd = "closed"
              /\ srv' = [srv EXCEPT !.pc = "finally", !.exc = "BrokenPipeError"]
              /\ UNCHANGED <<conn, log>>
    /\ UNCHANGED <<lsock, backlog, sockFile, cli>>
    /\ UNCHANGED hvars

\* (mutant: close() does nothing)
CloseServerEndSkipMut(c) == c

\* connection.close(): the end is closed, unread bytes are dropped and make
\* the peer see a reset.
CloseServerEnd(c) ==
    [c EXCEPT !.sEnd = "closed", !.c2s = <<>>, !.rstC = (Len(c.c2s) > 0)]

\* (mutant: the connection is not closed)
ServerFinallyNoCloseMut ==
    /\ srv.pc = "finally"
    /\ srv' = [srv EXCEPT !.pc = IF srv.exc = "" THEN "listen" ELSE "raised",
                          !.l = SrvLocals]
    /\ UNCHANGED <<lsock, backlog, sockFile, cli, conn, log>>
    /\ UNCHANGED hvars

\* (mutant: what listen() held lives on after it returns)
ServerFinallyKeepMut ==
    /\ srv.pc = "finally"
    /\ conn' = IF srv.l.connection # NoConn
               THEN [conn EXCEPT ![srv.l.connection] = CloseServerEnd(@)]
               ELSE conn
    /\ srv' = [srv EXCEPT !.pc = IF srv.exc = "" THEN "listen" ELSE "raised"]
    /\ UNCHANGED <<lsock, backlog, sockFile, cli, log>>
    /\ UNCHANGED hvars

\* (mutant: the connection is closed after the loop, not in a finally)
ServerFinallyOnlyCleanMut ==
    /\ srv.pc = "finally"
    /\ conn' = IF srv.l.connection # NoConn /\ srv.exc = ""
               THEN [conn EXCEPT ![srv.l.connection] = CloseServerEnd(@)]
               ELSE conn
    /\ srv' = [srv EXCEPT !.pc = IF srv.exc = "" THEN "listen" ELSE "raised",
                          !.l = SrvLocals]
    /\ UNCHANGED <<lsock, backlog, sockFile, cli, log>>
    /\ UNCHANGED hvars

\* Lines 169-173, and the loop of start (lines 146-147): close the
\* connection if there is one; listen() is left, and its locals with it:
\* start() calls it again, or the exception leaves start().
ServerFinally ==
    /\ srv.pc = "finally"
    /\ conn' = IF srv.l.connection # NoConn
               THEN [conn EXCEPT ![srv.l.connection] = CloseServerEnd(@)]
               ELSE conn
    /\ srv' = [srv EXCEPT !.pc = IF srv.exc = "" THEN "listen" ELSE "raised",
                          !.l = SrvLocals]
    /\ UNCHANGED <<lsock, backlog, sockFile, cli, log>>
    /\ UNCHANGED hvars

\* Ctrl-C while blocked in accept or recv: KeyboardInterrupt.
ServerInterrupt ==
    /\ srv.pc \in {"accept", "recv"}
    /\ srv' = [srv EXCEPT !.pc = "finally", !.exc = "KeyboardInterrupt"]
    /\ UNCHANGED <<lsock, backlog, sockFile, cli, conn, log>>
    /\ UNCHANGED hvars

\* CGNServer.__exit__, lines 133-135: os.unlink, then self.socket.close().
\* Closing the listening socket resets the connections still in its backlog.
ServerExit ==
    /\ srv.pc = "raised"
    /\ \/ /\ sockFile
          /\ sockFile' = FALSE
          /\ lsock' = "closed"
          /\ backlog' = <<>>
          /\ conn' = [i \in Clients |->
                         IF conn[i].sEnd = "pending" THEN CloseServerEnd(conn[i]) ELSE conn[i]]
          /\ srv' = [srv EXCEPT !.pc = "exited"]
       \/ /\ ~sockFile
          /\ srv' = [srv EXCEPT !.pc = "exited", !.exc = "FileNotFoundError"]
          /\ UNCHANGED <<sockFile, lsock, backlog, conn>>
    /\ UNCHANGED <<cli, log>>
    /\ UNCHANGED hvars

ServerStep ==
    \/ ServerStart \/ ServerListen \/ ServerAccept \/ ServerRecv
    \/ ServerProcess \/ ServerSend \/ ServerFinally

\* ------------------------------------------------------------------ client
\* self.socket.close() (or the process ending): the end is closed, unread
\* bytes are dropped and make the peer see a reset.
CloseClientEnd(c) ==
    [c EXCEPT !.cEnd = "closed", !.s2c = <<>>, !.rstS = (Len(c.s2c) > 0)]

\* CGNClient.__init__, lines 96-97: socket.connect(self.socket_path).
ClientConnect(i) ==
    /\ cli[i].pc = "new"
    /\ \/ /\ lsock = "listening"
          /\ conn' = [conn EXCEPT ![i].cEnd = "open", ![i].sEnd = "pending"]
          /\ backlog' = Append(backlog, i)
          /\ cli' = [cli EXCEPT ![i].pc = "ready",
                                ![i].after = {k \in Clients : cli[k].pc = "closed"}]
       \/ /\ lsock # "listening"
          /\ cli' = [cli EXCEPT ![i].pc = "refused"]
          /\ UNCHANGED <<conn, backlog>>
    /\ UNCHANGED <<srv, lsock, sockFile, log>>
    /\ UNCHANGED hvars

\* Requests issued so far, by all clients.
RECURSIVE SumOver(_, _)
SumOver(f, S) ==
    IF S = {} THEN 0
    ELSE LET x == CHOOSE y \in S : TRUE IN f[x] + SumOver(f, S \ {x})
Issued == SumOver([i \in Clients |-> Len(log[i].req)], Clients)

\* CGNClient.get_grasps, line 118: send_message(self.socket, data).
ClientGetGrasps(i) ==
    /\ cli[i].pc = "ready"
    /\ Issued < MaxReq
    /\ \E data \in Requests :
          \/ /\ conn[i].sEnd # "closed"
             /\ conn' = [conn EXCEPT ![i].c2s = @ \o send_message(data)]
             /\ log' = [log EXCEPT ![i].req = Append(@, data),
                                   ![i].cwrote = @ \o send_message(data)]
             /\ cli' = [cli EXCEPT ![i].pc = "wait", ![i].rd = RdStart]
          \/ /\ conn[i].sEnd = "closed"
             /\ log' = [log EXCEPT ![i].req = Append(@, data),
                                   ![i].resp = Append(@, Raise("BrokenPipeError"))]
             /\ cli' = [cli EXCEPT ![i].pc = "failed"]
             /\ UNCHANGED conn
    /\ UNCHANGED <<srv, lsock, backlog, sockFile>>
    /\ UNCHANGED hvars

\* Lines 119-120: what get_grasps does with what recv_message returned: it
\* returns it, or the exception leaves get_grasps.
CliAfterRecv(c, rd2) ==
    IF rd2.st # "done" THEN [c EXCEPT !.rd = rd2]
    ELSE [c EXCEPT !.rd = rd2, !.pc = IF rd2.ret.k = "raise" THEN "failed" ELSE "ready"]

LogResp(l, rd2) ==
    IF rd2.st # "done" THEN l ELSE [l EXCEPT !.resp = Append(@, rd2.ret)]

\* Line 119: one socket.recv call of response = recv_message(self.socket).
ClientRecv(i) ==
    /\ cli[i].pc = "wait"
    /\ \/ /\ Len(conn[i].s2c) > 0 \/ conn[i].sEnd = "closed"
          /\ \E c \in SockRecv(conn[i].s2c, RdWant(cli[i].rd)) :
                /\ cli' = [cli EXCEPT ![i] = CliAfterRecv(@, recv_message(cli[i].rd, c))]
                /\ log' = [log EXCEPT ![i] = LogResp(@, recv_message(cli[i].rd, c))]
                /\ conn' = [conn EXCEPT ![i].s2c = Drop(@, Len(c))]
       \/ /\ Len(conn[i].s2c) = 0 /\ conn[i].sEnd = "closed" /\ conn[i].rstC
          /\ cli' = [cli EXCEPT ![i] =
                        CliAfterRecv(@, RdDone(cli[i].rd, Raise("ConnectionResetError")))]
          /\ log' = [log EXCEPT ![i] =
                        LogResp(@, RdDone(cli[i].rd, Raise("ConnectionResetError")))]
          /\ conn' = [conn EXCEPT ![i].rstC = FALSE]
    /\ UNCHANGED <<srv, lsock, backlog, sockFile>>
    /\ UNCHANGED hvars

\* CGNClient.close (from __exit__), lines 105-107: send the sentinel, then
\* close the socket; when the send raises the socket is left open.
ClientClose(i) ==
    /\ cli[i].pc \in {"ready", "failed"}
    /\ \/ /\ conn[i].sEnd # "closed"
          /\ conn' = [conn EXCEPT ![i] = CloseClientEnd([@ EXCEPT !.c2s = @ \o send_message(NoneMsg)])]
          /\ log' = [log EXCEPT ![i].cwrote = @ \o send_message(NoneMsg)]
          /\ cli' = [cli EXCEPT ![i].pc = "closed"]
       \/ /\ conn[i].sEnd = "closed"
          /\ cli' = [cli EXCEPT ![i].pc = "close_raised"]
          /\ UNCHANGED <<conn, log>>
    /\ UNCHANGED <<srv, lsock, backlog, sockFile>>
    /\ UNCHANGED hvars

\* The client process ends without close() (killed while connected): the
\* system closes its socket and no sentinel is sent.
ClientAbort(i) ==
    /\ cli[i].pc \in {"ready", "wait"}
    /\ conn' = [conn EXCEPT ![i] = CloseClientEnd(@)]
    /\ cli' = [cli EXCEPT ![i].pc = "aborted"]
    /\ UNCHANGED <<srv, lsock, backlog, sockFile, log>>
    /\ UNCHANGED hvars

\* --------------------------------------------------------- specifications
SNext ==
    \/ ServerStep
    \/ ServerInterrupt
    \/ ServerExit
    \/ \E i \in Clients :
          ClientConnect(i) \/ ClientGetGrasps(i) \/ ClientRecv(i) \/ ClientClose(i) \/ ClientAbort(i)

Next == SNext

\* The codec harness alone, the sessions not started.
SIdle ==
    /\ SInit
    /\ sockFile = FALSE

\* A codec call on its own: no server, no client.
InitCodec ==
    /\ HInit
    /\ SIdle

\* The sessions: no codec call of the harness is in progress.
Init ==
    /\ SInit
    /\ HIdle

SpecCodec == InitCodec /\ [][HNext]_vars

Spec == Init /\ [][Next]_vars

\* The server process and a client blocked in recv run whenever they can;
\* what a caller does next, a kill and Ctrl-C are free.
FairSpec ==
    /\ Spec
    /\ WF_vars(ServerStep)
    /\ \A i \in Clients : WF_vars(ClientRecv(i))

\* As FairSpec, and the server's with-block is left once start() has raised:
\* __exit__ runs.
FairExitSpec ==
    /\ FairSpec
    /\ WF_vars(ServerExit)

\* ------------------------------------------------------------------ claims
HDone == hOp = "recv_message" /\ hRd.st = "done"
\* The harness stream is exactly one encoded message (and what follows it).
HWhole == hIn.kind = "enc" /\ hIn.cut = Len(InWire(hIn) \o hIn.extra)

\* C1 as stated: decoding the bytes pack_ndarray produced for any sequence
\* of 0..N frames yields that sequence (here even granted that every header
\* and length read returns the bytes it asked for).
C1_RoundTripAnyLength == (HDone /\ HWhole /\ ~hShort) => hRd.ret = RetFrames(hIn.msg)

\* C1, amended: decoding the bytes pack_ndarray produced yields None for the
\* empty sequence (it is the close sentinel) and the same frames, in order
\* and content, for a sequence of 1..N frames, however the body is chunked;
\* when a header or length read comes back short recv_message raises
\* struct.error instead.
C1_RoundTrip ==
    (HDone /\ HWhole) =>
        hRd.ret = IF hShort THEN Raise("struct.error")
                  ELSE IF Len(hIn.msg) = 0 THEN RetNone
                  ELSE RetFrames(hIn.msg)

C1_Witness ==
    /\ HDone /\ HWhole /\ ~hShort
    /\ Len(hIn.msg) = MaxFrames
    /\ hIn.msg[1] # hIn.msg[2]
    /\ hIn.msg[2] = <<>>
    /\ hRd.ret = RetFrames(hIn.msg)
    /\ hCalls > 2 + Len(hIn.msg)

\* The stream delivers the header and the whole length list, then closes
\* before total_size body bytes have come.
BodyDelivered(in) == Len(InStream(in)) - HeaderLen - SizeLen * Len(in.sizes)
TruncatedBody(in) == BodyDelivered(in) >= 0 /\ BodyDelivered(in) < in.total

Corrupt(in) == in.cut = Len(InWire(in) \o in.extra) /\ SumSeq(in.sizes) # in.total

\* C9 as stated, its last part: recv_message never returns frames split from
\* a body whose declared total disagrees with the length list.
C9_CorruptionDetected == (HDone /\ Corrupt(hIn)) => hRd.ret.k # "frames"

\* C10: recvall(socket, n), n > 0, on a stream that delivers at least n
\* bytes: whatever the chunking, it accumulates the bytes in order, and
\* returns exactly the first n bytes having consumed exactly n.
C10_RecvallExact ==
    (hOp = "recvall" /\ hIn.n > 0 /\ Len(InStream(hIn)) >= hIn.n) =>
        /\ hRa.k \in {"run", "buf"}
        /\ hRa.buf = Take(InStream(hIn), HConsumed)
        /\ hRa.k = "run" => (hRa.count = hIn.n - HConsumed /\ hRa.count > 0)
        /\ hRa.k = "buf" => (HConsumed = hIn.n /\ Len(hRa.buf) = hIn.n)

C10_Witness ==
    /\ hOp = "recvall" /\ hIn.n = MaxCount /\ Len(InStream(hIn)) > hIn.n
    /\ hRa.k = "buf" /\ hRa.buf = Take(InStream(hIn), hIn.n)
    /\ hCalls = 2

\* The harness stream is exactly the bytes pack_ndarray made of hIn.msg.
HExact == hOp = "recv_message" /\ hIn.kind = "enc" /\ InStream(hIn) = pack_ndarray(hIn.msg)

\* C11: pack_ndarray of the empty frame sequence is exactly the six bytes of
\* the header (total 0, count 0), nothing after them; and recv_message on a
\* stream that holds exactly these bytes never returns a frame list: once it
\* has the header it returns None, having read the six bytes and no more.
C11_SentinelIdentity ==
    (hOp = "recv_message" /\ hIn.kind = "enc" /\ hIn.msg = <<>>) =>
        /\ pack_ndarray(hIn.msg) = <<0, 0, 0, 0, 0, 0>>
        /\ pack_ndarray(hIn.msg) = PackIH(0, 0)
        /\ (HExact /\ HDone) =>
              /\ hRd.ret.k # "frames"
              /\ ~hShort => (hRd.ret = RetNone /\ hStream = <<>> /\ hCalls = 1)

C11_Witness ==
    /\ HExact /\ HDone /\ hIn.msg = <<>>
    /\ hRd.header = PackIH(0, 0)
    /\ hRd.ret = RetNone
    /\ hStream = <<>>

\* C15 as stated: a header that declares at least one frame is never taken
\* for the sentinel, and its length list is read from the stream (here
\* granted that every header and length read returns the bytes asked for).
C15_OnlyZeroZeroIsSentinel ==
    (HDone /\ hIn.kind = "raw" /\ ~hShort /\ Len(hIn.sizes) >= 1) =>
        /\ hRd.ret.k # "None"
        /\ HConsumed >= HeaderLen + SizeLen * Len(hIn.sizes)

\* C16 as stated: on the bytes of an encoded message, whatever the chunks
\* the stream delivers them in, recv_message ends as it does when every read
\* returns all the bytes asked for.
C16_ChunkingIndependent ==
    (HDone /\ HExact) => hRd.ret = RecvWhole(RdStart, InStream(hIn))

\* C17 as stated, its last part: the two ends of stream never give the same
\* result: recvall returns its "stream ended" value only when it has
\* accumulated nothing.
C17_EndOfStreamCasesDiffer ==
    (hOp = "recvall" /\ hRa.k = "None") => Len(hRa.buf) = 0

\* ------------------------------------------------------- claims, sessions
Last(q) == q[Len(q)]
Front(q) == SubSeq(q, 1, Len(q) - 1)

\* The requests of client i whose send went through.
SentReqs(i) ==
    IF Len(log[i].resp) = Len(log[i].req) /\ Len(log[i].resp) > 0
       /\ Last(log[i].resp) = Raise("BrokenPipeError")
    THEN Front(log[i].req) ELSE log[i].req

RECURSIVE WireOf(_)
WireOf(msgs) == IF msgs = <<>> THEN <<>> ELSE send_message(Head(msgs)) \o WireOf(Tail(msgs))

\* The frame sequences the callback returned on a connection, in order.
RECURSIVE Returned(_)
Returned(cb) ==
    IF cb = <<>> THEN <<>>
    ELSE IF Head(cb).k = "ret" THEN <<Head(cb).frames>> \o Returned(Tail(cb))
    ELSE Returned(Tail(cb))

\* C2 as stated: the i-th Request returns exactly the frame sequence the
\* callback produced for the i-th request message (here even granted that
\* the callback returned and that get_grasps did not raise).
C2_ResponseIsCallbackResult ==
    \A i \in Clients : \A j \in 1..Len(log[i].resp) :
        (j <= Len(log[i].cb) /\ log[i].cb[j].k = "ret" /\ log[i].resp[j].k # "raise")
            => log[i].resp[j] = RetFrames(log[i].cb[j].frames)

\* C2, amended: on one connection used serially, every get_grasps writes
\* exactly one message and returns only after a response header or the end
\* of the stream has come; the server's j-th callback call gets exactly the
\* frames of the j-th request; and whenever the j-th get_grasps returns a
\* frame list, it is the non-empty list the callback returned for the j-th
\* request.  It returns None when the callback's result was empty (it went
\* out as the sentinel) or the server has closed the connection; it raises
\* otherwise.
C2_Fifo ==
    \A i \in Clients :
        /\ cli[i].pc = "wait" => Len(log[i].req) = Len(log[i].resp) + 1
        /\ cli[i].pc \in {"new", "refused", "ready", "failed", "closed", "close_raised"} =>
              Len(log[i].req) = Len(log[i].resp)
        /\ log[i].cwrote = WireOf(SentReqs(i)) \o (IF cli[i].pc = "closed" THEN send_message(NoneMsg) ELSE <<>>)
        /\ Len(log[i].cb) <= Len(log[i].req)
        /\ \A j \in 1..Len(log[i].cb) : log[i].cb[j].data = log[i].req[j]
        /\ \A j \in 1..Len(log[i].resp) :
              /\ log[i].resp[j].k = "frames" =>
                    /\ j <= Len(log[i].cb)
                    /\ log[i].cb[j].k = "ret"
                    /\ log[i].cb[j].frames = log[i].resp[j].frames
                    /\ log[i].resp[j].frames # <<>>
              /\ log[i].resp[j].k = "None" =>
                    \/ j <= Len(log[i].cb) /\ log[i].cb[j].k = "ret" /\ log[i].cb[j].frames = <<>>
                    \/ conn[i].sEnd = "closed"

C2_Witness ==
    \E i \in Clients :
        /\ Len(log[i].resp) = 2
        /\ log[i].req[1] # log[i].req[2]
        /\ log[i].resp[1].k = "frames" /\ log[i].resp[2].k = "None"
        /\ Len(log[i].cb) = 2 /\ log[i].cb[2].k = "ret"
        /\ conn[i].sEnd = "open"

\* C3 as stated: a callback error never brings the server to its terminal
\* state.
C3_CallbackErrorSurvived == srv.pc = "raised" => srv.exc # "CallbackError"

\* The last callback call on connection i raised.
CbFailed(i) == Len(log[i].cb) > 0 /\ Last(log[i].cb).k = "raise"

\* C4: when the callback raises while the client is blocked in get_grasps,
\* the server has written nothing for that request (all it ever wrote on the
\* connection are the whole responses of the earlier calls), and the client's
\* blocked receive returns: get_grasps returns None.
C4_CallbackFailureReleasesClient ==
    /\ [](\A i \in Clients :
            CbFailed(i) =>
               /\ log[i].swrote = WireOf(Returned(log[i].cb))
               /\ Len(log[i].resp) >= Len(log[i].cb) => log[i].resp[Len(log[i].cb)] = RetNone)
    /\ \A i \in Clients : (CbFailed(i) /\ cli[i].pc = "wait") ~> (cli[i].pc # "wait")

C4_Witness ==
    \E i \in Clients :
        /\ CbFailed(i) /\ Len(log[i].cb) = 2
        /\ Len(log[i].resp) = 2 /\ log[i].resp[2] = RetNone
        /\ log[i].swrote # <<>>
        /\ conn[i].sEnd = "closed"

\* recv_message has just returned None on the sentinel header.
SentinelSeen ==
    /\ srv.pc = "finally" /\ srv.exc = ""
    /\ srv.l.rd.ret = RetNone /\ srv.l.rd.header = PackIH(0, 0)

RECURSIVE NonEmptyCount(_)
NonEmptyCount(msgs) ==
    IF msgs = <<>> THEN 0
    ELSE (IF Head(msgs) = <<>> THEN 0 ELSE 1) + NonEmptyCount(Tail(msgs))

\* C5: the callback runs only on frames recv_message returned, never for a
\* sentinel (on a connection it has run at most once per non-empty request);
\* and when recv_message returns None on the sentinel the server's next step
\* closes that connection, without a callback call, and goes back to
\* listen(), whose next step is to accept again.
C5_SentinelClosesWithoutCallback ==
    /\ [](/\ srv.pc \in {"process", "send"} =>
                (srv.l.rd.ret.k = "frames" /\ srv.l.data = srv.l.rd.ret.frames)
          /\ \A i \in Clients : Len(log[i].cb) <= NonEmptyCount(log[i].req))
    /\ [][(SentinelSeen /\ srv' # srv) =>
              /\ srv'.pc = "listen"
              /\ conn'[srv.l.connection].sEnd = "closed"
              /\ log' = log]_vars
    /\ [][(srv.pc = "listen" /\ srv' # srv) => (srv'.pc = "accept" /\ lsock' = "listening")]_vars

C5_Witness ==
    /\ srv.pc = "accept"
    /\ \E i \in Clients :
          /\ cli[i].pc = "closed" /\ conn[i].sEnd = "closed"
          /\ Len(log[i].req) = 1 /\ Len(log[i].cb) = 1
          /\ log[i].resp = <<RetFrames(<<A8>>)>>

\* C6: nothing of a connection is left when the server accepts the next one:
\* in listen() before accept returns, no connection is held, no received data
\* and no result; accept starts recv_message afresh on the new connection;
\* and on every connection the callback gets exactly the frames that
\* connection's client sent, so a client that connects after another has
\* closed is served like the first.
C6_FreshStatePerConnection ==
    /\ [](/\ srv.pc \in {"listen", "accept"} => srv.l = SrvLocals
          /\ srv.pc \in {"listen", "accept"} => \A i \in Clients : conn[i].sEnd # "open"
          /\ \A i \in Clients : \A j \in 1..Len(log[i].cb) : log[i].cb[j].data = log[i].req[j])
    /\ [][(srv.pc = "accept" /\ srv' # srv /\ srv'.pc = "recv") =>
              /\ backlog # <<>>
              /\ srv'.l = [SrvLocals EXCEPT !.connection = Head(backlog)]
              /\ conn[Head(backlog)].sEnd = "pending"]_vars

C6_Witness ==
    \E i, k \in Clients :
        /\ i # k /\ k \in cli[i].after
        /\ cli[i].pc = "closed" /\ cli[k].pc = "closed"
        /\ log[i].req = log[k].req /\ Len(log[i].req) = 1
        /\ log[i].resp = log[k].resp /\ log[i].resp[1].k = "frames"
        /\ srv.pc = "accept"

\* C7: at most one accepted connection is open, it is the one listen() holds,
\* and the server receives, processes and responds only on it; while listen()
\* has not accepted, none is open.
C7_OneConnection ==
    /\ Cardinality({i \in Clients : conn[i].sEnd = "open"}) <= 1
    /\ \A i \in Clients :
          conn[i].sEnd = "open" =>
              (srv.l.connection = i /\ srv.pc \in {"recv", "process", "send", "finally"})
    /\ srv.pc \in {"recv", "process", "send"} =>
          (srv.l.connection # NoConn /\ conn[srv.l.connection].sEnd = "open")

C7_Witness ==
    \E i, k \in Clients :
        /\ conn[i].sEnd = "open" /\ srv.pc = "process"
        /\ conn[k].sEnd = "pending" /\ Len(conn[k].c2s) > 0

\* C12 as stated: once the server's with-block has been left, the listening
\* socket is closed and the socket file is gone.
C12_ExitReleasesEverything == srv.pc = "exited" => (lsock = "closed" /\ ~sockFile)

\* C13 as stated, its first part: once close() has run in the client's
\* __exit__, whether the sentinel went out or its send failed, the client's
\* socket is closed.
C13_CloseReleasesSocket ==
    \A i \in Clients : cli[i].pc \in {"closed", "close_raised"} => conn[i].cEnd = "closed"

\* C14: start() raises OSError only when the socket file is there and stays
\* there, and then nothing is bound; with no file there the failed unlink is
\* ignored; bind is tried only with the old file removed; listen() is entered
\* only with the socket bound to a fresh file, and the accept loop runs on
\* a listening socket.
C14_StartRemovesStaleArtifact ==
    /\ [](/\ srv.pc = "new" => lsock = "unbound"
          /\ srv.pc \in {"accept", "recv", "process", "send"} => (lsock = "listening" /\ sockFile))
    /\ [][(srv.pc = "new" /\ srv' # srv) =>
              /\ srv'.pc \in {"listen", "raised"}
              /\ (srv'.pc = "raised" /\ srv'.exc = "OSError") =>
                    (sockFile /\ sockFile' /\ lsock' = "unbound")
              /\ ~sockFile => srv'.exc # "OSError"
              /\ srv'.pc = "raised" => lsock' = "unbound"
              /\ srv'.exc = "BindError" => ~sockFile'
              /\ srv'.pc = "listen" => (lsock' = "bound" /\ sockFile')]_vars

C14_Witness ==
    /\ srv.pc = "raised" /\ srv.exc = "OSError"
    /\ sockFile /\ lsock = "unbound"
    /\ \E i \in Clients : cli[i].pc = "refused"

\* The callback returned an empty result on connection i and the server has
\* written its response: the sentinel.
SrvSentSentinel(i) ==
    \E j \in 1..Len(log[i].cb) :
        /\ log[i].cb[j].k = "ret" /\ log[i].cb[j].frames = <<>>
        /\ Len(log[i].swrote) >= Len(WireOf(Returned(SubSeq(log[i].cb, 1, j))))

\* C18 as stated, for the server's side: once the server has written a
\* sentinel on a connection it receives, processes and sends nothing more
\* on it.
C18_SentinelDestroysConnection ==
    \A i \in Clients :
        SrvSentSentinel(i) => ~(srv.l.connection = i /\ srv.pc \in {"recv", "process", "send"})

\* C19: an accepted connection is open only while listen() holds it; the
\* loop is left only into the finally clause, with the connection still
\* held; and the finally clause closes the connection it holds before
\* listen() returns or raises, and touches no connection when accept did not
\* return one.
C19_AcceptedConnectionClosed ==
    /\ [](\A i \in Clients :
            conn[i].sEnd = "open" =>
                (srv.l.connection = i /\ srv.pc \in {"recv", "process", "send", "finally"}))
    /\ [][(srv.pc \in {"recv", "process", "send"} /\ srv'.pc \notin {"recv", "process", "send"}) =>
              (srv'.pc = "finally" /\ srv'.l.connection = srv.l.connection
               /\ conn'[srv.l.connection].sEnd = "open")]_vars
    /\ [][(srv.pc = "finally" /\ srv' # srv) =>
              /\ srv'.pc = (IF srv.exc = "" THEN "listen" ELSE "raised")
              /\ srv.l.connection # NoConn => conn'[srv.l.connection].sEnd = "closed"
              /\ srv.l.connection = NoConn => conn' = conn]_vars

C19_Witness ==
    /\ srv.pc = "raised" /\ srv.exc = "BrokenPipeError"
    /\ \E i \in Clients : conn[i].sEnd = "closed" /\ Len(log[i].cb) = 1 /\ log[i].swrote = <<>>

\* Client k stands between the server and client i: its socket is open and
\* the server holds its connection, or will accept it before i's.
Ahead(k, i) ==
    /\ conn[k].cEnd = "open"
    /\ \/ conn[k].sEnd = "open"
       \/ \E a, b \in 1..Len(backlog) : a < b /\ backlog[a] = k /\ backlog[b] = i

\* Client i in get_grasps and the server in recv_message on i's connection,
\* both ends open and no byte in flight either way.
BothBlocked(i) ==
    /\ cli[i].pc = "wait"
    /\ srv.pc = "recv" /\ srv.l.connection = i
    /\ conn[i].cEnd = "open" /\ conn[i].sEnd = "open"
    /\ conn[i].c2s = <<>> /\ conn[i].s2c = <<>>

\* C20: the client and the server are never both blocked in a receive on the
\* same connection with nothing in flight; and a get_grasps call of a client
\* that no other client stands in front of returns in the end (frames, None,
\* or an exception).
C20_NoDeadlock ==
    /\ [](\A i \in Clients : ~BothBlocked(i))
    /\ \A i \in Clients :
          (cli[i].pc = "wait" /\ \A k \in Clients \ {i} : ~Ahead(k, i)) ~> (cli[i].pc # "wait")

C20_Witness ==
    \E i \in Clients :
        /\ \A k \in Clients \ {i} : cli[k].pc = "new"
        /\ cli[i].pc = "ready" /\ Len(log[i].resp) = MaxReq
        /\ \A j \in 1..MaxReq : log[i].resp[j].k = "frames"
        /\ srv.pc = "recv" /\ srv.l.connection = i

=============================================================================
